---- MODULE Spec2Model ----
(***************************************************************************)
(* Model of the remote theme configuration core of ThemeRemoteConfig:      *)
(*   - RemoteConfigService (src/README.md 510-597): initialize, fetchTheme, *)
(*     cacheTheme, getCachedTheme;                                          *)
(*   - ThemeProvider (src/README.md 598-653): theme / isLoading / error     *)
(*     and refreshTheme;                                                    *)
(*   - Theme and DEFAULT_THEME (src/src/theme/types.ts).                    *)
(* JavaScript runs one continuation at a time, so every action below is     *)
(* the code between two awaits of one refreshTheme() invocation: from the   *)
(* return of the awaited RemoteSource / AsyncStorage call to the next call  *)
(* that suspends.  Awaits that only hop through the microtask queue (an     *)
(* async function that returns or throws without doing I/O) read no shared  *)
(* field after the hop and are folded into the step that precedes them.     *)
(***************************************************************************)
EXTENDS Naturals, FiniteSets

\* Number of refreshTheme() invocations that may be in flight together.
MaxCalls == 2

Calls == 1..MaxCalls

----------------------------------------------------------------------------
\* JavaScript values.  A parsed document is a record; null is its own record.

Null == [null |-> TRUE]

DEFAULT_THEME ==
  [ colors |->
      [ primary |-> "#007AFF", secondary |-> "#5856D6", background |-> "#FFFFFF",
        surface |-> "#F2F2F7", text |-> "#000000", textSecondary |-> "#8E8E93",
        error |-> "#FF3B30", success |-> "#34C759", warning |-> "#FF9500" ],
    typography |->
      [ fontFamily |-> "System",
        fontSize |-> [ small |-> 12, medium |-> 16, large |-> 20, xlarge |-> 24 ],
        fontWeight |-> [ regular |-> "400", medium |-> "500", bold |-> "700" ] ],
    spacing |-> [ xs |-> 4, sm |-> 8, md |-> 16, lg |-> 24, xl |-> 32 ] ]

\* The example document of the Remote Config parameter app_theme.
ExampleTheme ==
  [ colors |->
      [ primary |-> "#3F51B5", secondary |-> "#FF4081", background |-> "#F0F2F5",
        surface |-> "#FFFFFF", text |-> "#1C1C1C", textSecondary |-> "#757575",
        error |-> "#D32F2F", success |-> "#388E3C", warning |-> "#FBC02D" ],
    typography |-> DEFAULT_THEME.typography,
    spacing |-> DEFAULT_THEME.spacing ]

\* A valid Theme left in the cache by an earlier run: another palette.
OlderTheme ==
  [ DEFAULT_THEME EXCEPT !.colors.primary = "#111111", !.colors.text = "#222222" ]

\* A JSON object that parses but lacks the required field spacing.
PartialDocument ==
  [ colors |-> ExampleTheme.colors, typography |-> ExampleTheme.typography ]

ThemeColorsKeys ==
  { "primary", "secondary", "background", "surface", "text", "textSecondary",
    "error", "success", "warning" }

ThemeTypographyKeys == { "fontFamily", "fontSize", "fontWeight" }

ThemeSpacingKeys == { "xs", "sm", "md", "lg", "xl" }

\* The shape interface Theme requires of a document.
IsTheme(v) ==
  /\ { "colors", "typography", "spacing" } \subseteq DOMAIN v
  /\ ThemeColorsKeys \subseteq DOMAIN v.colors
  /\ ThemeTypographyKeys \subseteq DOMAIN v.typography
  /\ { "small", "medium", "large", "xlarge" } \subseteq DOMAIN v.typography.fontSize
  /\ { "regular", "medium", "bold" } \subseteq DOMAIN v.typography.fontWeight
  /\ ThemeSpacingKeys \subseteq DOMAIN v.spacing

\* JavaScript truthiness of a parsed document: only null is falsy here.
Truthy(v) == v # Null

----------------------------------------------------------------------------
\* Strings.  [json |-> v] is the JSON text of document v; [text |-> t] is a
\* string that is not JSON ("" included).  NoItem is AsyncStorage's null for
\* a key that was never set; Unset is a RemoteSource default never seeded.

NoItem == [absent |-> TRUE]

Unset == [unset |-> TRUE]

EmptyString == [text |-> ""]

MalformedString == [text |-> "{colors:"]

\* JSON.stringify of a document obtained from JSON.parse or of null.
JSON_stringify(v) == [json |-> v]

\* A completion: the function returned a value or threw.
Return(v) == [kind |-> "return", value |-> v]

Throw == [kind |-> "throw", value |-> Null]

\* JSON.parse: throws SyntaxError on text that is not JSON.
JSON_parse(s) ==
  IF "json" \in DOMAIN s THEN Return(s.json) ELSE Throw

\* Truthiness of what AsyncStorage.getItem resolved to: null and "" are falsy.
TruthyString(s) == s # NoItem /\ s # EmptyString

----------------------------------------------------------------------------
\* The collaborators.

\* What the Remote Config backend may hold for app_theme when a fetch is
\* activated: the example Theme, a document that misses a field, text that is
\* not JSON, the empty string, or no parameter at all (NoParam).
NoParam == [noparam |-> TRUE]

ServerValues ==
  { JSON_stringify(ExampleTheme), JSON_stringify(PartialDocument),
    MalformedString, EmptyString, NoParam }

\* What AsyncStorage may hold at @theme_cache when the process starts: nothing,
\* a Theme cached by an earlier run, or bytes that no longer parse.
InitialItems == { NoItem, JSON_stringify(OlderTheme), MalformedString }

\* remoteConfig().getValue(THEME_CONFIG_KEY).asString(): the activated value,
\* else the in-app default, else the static value "".
getValue(serverValue, default) ==
  IF serverValue # NoParam THEN serverValue
  ELSE IF default # Unset THEN default
  ELSE EmptyString

----------------------------------------------------------------------------
VARIABLES
  initialized,    \* RemoteConfigService.initialized
  store,          \* AsyncStorage item at THEME_CACHE_KEY
  remoteDefault,  \* RemoteSource in-app default for THEME_CONFIG_KEY
  theme,          \* ThemeProvider state: theme
  isLoading,      \* ThemeProvider state: isLoading
  error,          \* ThemeProvider state: error
  mounted,        \* the mount effect of ThemeProvider has run
  pc,             \* per invocation: the call it is suspended on
  loc,            \* per invocation: the local it carries across that await
  last,           \* the fetchTheme() completion made by the latest step, if any
  lastOk,         \* the latest fetchTheme() that completed on the success path
  since,          \* the invocations in flight that began after that one completed
  latest          \* what the most recently invoked refreshTheme() left, once done

vars ==
  << initialized, store, remoteDefault, theme, isLoading, error, mounted,
     pc, loc, last, lastOk, since, latest >>

ErrorNull == "null"

ErrorMessage == "Failed to fetch theme"

NoLocal == [unused |-> TRUE]

NoEvent ==
  [ status |-> "none", path |-> "none", value |-> Null, ioOk |-> TRUE,
    cacheBefore |-> Null, later |-> FALSE ]

NoSuccess == [ seen |-> FALSE, theme |-> Null, wrote |-> FALSE ]

\* latest while the most recently invoked refreshTheme() is in flight, and
\* before any was invoked.
Pending == [ done |-> FALSE, theme |-> Null, error |-> ErrorNull ]

\* lastOk when that fetchTheme() returned something that is no Theme.
NotATheme == [ seen |-> TRUE, theme |-> Null, wrote |-> FALSE ]

\* What ConfigCache.read() stands for: the document stored, or Null (absent)
\* when nothing is stored or the stored string does not parse.
CacheHolds(item) ==
  IF "json" \in DOMAIN item THEN item.json ELSE Null

----------------------------------------------------------------------------
\* RemoteConfigService, private helpers.

\* getCachedTheme with its try/catch removed: a failure escapes.
getCachedTheme_NoCatch(getOk, item) ==
  IF ~getOk THEN Throw
  ELSE IF TruthyString(item) THEN JSON_parse(item)
  ELSE Return(Null)

\* getCachedTheme with the branches of its conditional swapped:
\* `cachedTheme ? null : JSON.parse(cachedTheme)`.
getCachedTheme_Inverted(getOk, item) ==
  IF ~getOk THEN Return(Null)
  ELSE IF TruthyString(item) THEN Return(Null)
  ELSE Return(Null)

\* getCachedTheme whose try covers the getItem only: a stored string that
\* does not parse makes JSON.parse throw out of it.
getCachedTheme_ParseOutsideTry(getOk, item) ==
  IF ~getOk THEN Return(Null)
  ELSE IF TruthyString(item) THEN JSON_parse(item)
  ELSE Return(Null)

\* getCachedTheme(): AsyncStorage.getItem (getOk: it resolved), then
\* `cachedTheme ? JSON.parse(cachedTheme) : null`; the catch returns null.
getCachedTheme(getOk, item) ==
  IF ~getOk THEN Return(Null)
  ELSE IF ~TruthyString(item) THEN Return(Null)
  ELSE IF JSON_parse(item).kind = "throw" THEN Return(Null)
  ELSE JSON_parse(item)

\* cacheTheme that reports success but leaves the item as it was.
cacheTheme_Dropped(setOk, v, item) ==
  [ completion |-> Return(Null), item |-> item ]

\* cacheTheme that passes the object itself to setItem: the item becomes its
\* string coercion, which is not JSON.
cacheTheme_NoStringify(setOk, v, item) ==
  [ completion |-> Return(Null),
    item |-> IF setOk THEN [text |-> "[object Object]"] ELSE item ]

\* cacheTheme with its try/catch removed: a failed setItem escapes.
cacheTheme_NoCatch(setOk, v, item) ==
  [ completion |-> IF setOk THEN Return(Null) ELSE Throw,
    item |-> IF setOk THEN JSON_stringify(v) ELSE item ]

\* cacheTheme(theme): AsyncStorage.setItem of JSON.stringify(theme) (setOk: it
\* resolved); the catch swallows a failure.  Yields the completion and the item
\* the store holds afterwards.
cacheTheme(setOk, v, item) ==
  [ completion |-> Return(Null),
    item |-> IF setOk THEN JSON_stringify(v) ELSE item ]

Init ==
  /\ initialized = FALSE
  /\ store \in InitialItems
  /\ remoteDefault = Unset
  /\ theme = DEFAULT_THEME
  /\ isLoading = TRUE
  /\ error = ErrorNull
  /\ mounted = FALSE
  /\ pc = [i \in Calls |-> "idle"]
  /\ loc = [i \in Calls |-> NoLocal]
  /\ last = NoEvent
  /\ lastOk = NoSuccess
  /\ since = {}
  /\ latest = Pending

----------------------------------------------------------------------------
\* ThemeProvider.refreshTheme and RemoteConfigService.fetchTheme / initialize.

\* initialize() without its first line: the sequence is run on every call.
initialize_entry_NoGuard(flag) == "setConfigSettings"

\* initialize(), first line: `if (this.initialized) return;` -- the call the
\* invocation awaits next is fetchAndActivate (initialize() returned at once)
\* or setConfigSettings (the sequence starts).
initialize_entry(flag) ==
  IF flag THEN "fetchAndActivate" ELSE "setConfigSettings"

\* refreshTheme up to its first suspension: setIsLoading(true), setError(null),
\* fetchTheme() -> initialize(), which returns at once when `initialized` is
\* set (fetchAndActivate is then the call awaited) and else calls
\* setConfigSettings.
refreshTheme_begin(i) ==
  /\ pc[i] = "idle"
  /\ isLoading' = TRUE
  /\ error' = ErrorNull
  /\ pc' = [pc EXCEPT ![i] = initialize_entry(initialized)]
  /\ loc' = [loc EXCEPT ![i] = NoLocal]
  /\ last' = NoEvent
  /\ since' = IF lastOk.seen THEN since \cup {i} ELSE since
  /\ latest' = Pending
  /\ UNCHANGED << initialized, store, remoteDefault, theme, lastOk >>

\* The invocations in flight occupy slots 1..k in the order they were invoked:
\* when the one in slot i completes, the later ones move down one slot.
RemoveSlot(f, i, free) ==
  [ j \in Calls |-> IF j < i THEN f[j]
                    ELSE IF j < MaxCalls THEN f[j + 1]
                    ELSE free ]

\* refreshTheme whose catch block also resets the theme.
setTheme_ResetOnError(completion, current) ==
  IF completion.kind = "return"
    THEN (IF Truthy(completion.value) THEN completion.value ELSE DEFAULT_THEME)
    ELSE DEFAULT_THEME

\* refreshTheme that sets whatever fetchTheme() resolved to:
\* `setTheme(newTheme)` without the `if (newTheme) ... else`.
setTheme_Unconditional(completion, current) ==
  IF completion.kind = "return" THEN completion.value ELSE current

\* The theme state after `await fetchTheme()` settled: `if (newTheme)
\* setTheme(newTheme) else setTheme(DEFAULT_THEME)`; the catch block leaves
\* the theme alone.
setTheme(completion, current) ==
  IF completion.kind = "return"
    THEN (IF Truthy(completion.value) THEN completion.value ELSE DEFAULT_THEME)
    ELSE current

\* refreshTheme after `await fetchTheme()`: the promise settled with
\* `completion`; setTheme / setError, then the finally block.  `path`, `ioOk`
\* and `item` describe the fetchTheme() that settled: the branch it returned
\* from, whether its AsyncStorage call resolved, and what the store holds once
\* it has.
refreshTheme_settle(i, completion, path, ioOk, item) ==
  /\ store' = item
  /\ theme' = setTheme(completion, theme)
  /\ error' = IF completion.kind = "return" THEN error ELSE ErrorMessage
  /\ isLoading' = FALSE
  /\ pc' = RemoveSlot(pc, i, "idle")
  /\ loc' = RemoveSlot(loc, i, NoLocal)
  /\ last' = [ status |-> IF completion.kind = "return" THEN "resolved"
                                                        ELSE "rejected",
               path |-> path, value |-> completion.value,
               ioOk |-> ioOk, cacheBefore |-> CacheHolds(store),
               later |-> i \in since ]
  /\ lastOk' = IF path # "success" THEN lastOk
                ELSE IF IsTheme(completion.value)
                  THEN [ seen |-> TRUE, theme |-> completion.value, wrote |-> ioOk ]
                  ELSE NotATheme
  /\ since' = IF path = "success" THEN {}
              ELSE { IF j > i THEN j - 1 ELSE j : j \in since \ {i} }
  /\ latest' = IF ~latest.done /\ (i = MaxCalls \/ pc[i + 1] = "idle")
                THEN [ done |-> TRUE, theme |-> theme', error |-> error' ]
                ELSE latest

\* fetchTheme whose catch block calls fetchTheme() again instead of reading
\* the cache.
fetchTheme_catch_Retry(i) ==
  /\ pc' = [pc EXCEPT ![i] = initialize_entry(initialized)]
  /\ loc' = [loc EXCEPT ![i] = NoLocal]
  /\ last' = NoEvent
  /\ UNCHANGED << store, theme, isLoading, error, lastOk, since, latest >>

\* The catch block of fetchTheme is entered: getCachedTheme() is called and
\* AsyncStorage.getItem is awaited.
fetchTheme_catch(i) ==
  /\ pc' = [pc EXCEPT ![i] = "fallbackGetItem"]
  /\ loc' = [loc EXCEPT ![i] = NoLocal]
  /\ last' = NoEvent
  /\ UNCHANGED << store, theme, isLoading, error, lastOk, since, latest >>

\* useEffect(() => { refreshTheme(); }, []) of ThemeProvider.
Mount ==
  /\ ~mounted
  /\ mounted' = TRUE
  /\ refreshTheme_begin(1)

\* refreshTheme() invoked through the context by a consumer: it takes the
\* first free slot, after the invocations already in flight.
Refresh(i) ==
  /\ mounted
  /\ \A j \in Calls : j < i => pc[j] # "idle"
  /\ UNCHANGED mounted
  /\ refreshTheme_begin(i)

\* initialize: remoteConfig().setConfigSettings(...) settled.
SetConfigSettingsReturn(i) ==
  /\ pc[i] = "setConfigSettings"
  /\ \E ok \in BOOLEAN :
       IF ok
         THEN /\ pc' = [pc EXCEPT ![i] = "initGetItem"]
              /\ UNCHANGED << loc, store, theme, isLoading, error, lastOk, since, latest >>
              /\ last' = NoEvent
         ELSE fetchTheme_catch(i)
  /\ UNCHANGED << initialized, remoteDefault, mounted >>

\* initialize: getCachedTheme() settled; setDefaults is called with
\* JSON.stringify(cachedTheme).
InitGetItemReturn(i) ==
  /\ pc[i] = "initGetItem"
  /\ \E getOk \in BOOLEAN :
       LET c == getCachedTheme(getOk, store) IN
       IF c.kind = "return"
         THEN /\ pc' = [pc EXCEPT ![i] = "setDefaults"]
              /\ loc' = [loc EXCEPT ![i] = c.value]
              /\ last' = NoEvent
              /\ UNCHANGED << store, theme, isLoading, error, lastOk, since, latest >>
         ELSE fetchTheme_catch(i)
  /\ UNCHANGED << initialized, remoteDefault, mounted >>

\* initialize() that marks itself initialized whether or not setDefaults
\* succeeded.
setDefaults_flag_Always(ok, flag) == TRUE

\* `this.initialized` once `await remoteConfig().setDefaults(...)` settled:
\* the assignment after it runs only when it resolved.
setDefaults_flag(ok, flag) ==
  IF ok THEN TRUE ELSE flag

\* initialize: remoteConfig().setDefaults(...) settled; on success
\* `this.initialized = true`, initialize() returns and fetchTheme calls
\* fetchAndActivate.
SetDefaultsReturn(i) ==
  /\ pc[i] = "setDefaults"
  /\ \E ok \in BOOLEAN :
       IF ok
         THEN /\ remoteDefault' = JSON_stringify(loc[i])
              /\ initialized' = setDefaults_flag(ok, initialized)
              /\ pc' = [pc EXCEPT ![i] = "fetchAndActivate"]
              /\ loc' = [loc EXCEPT ![i] = NoLocal]
              /\ last' = NoEvent
              /\ UNCHANGED << store, theme, isLoading, error, lastOk, since, latest >>
         ELSE /\ fetchTheme_catch(i)
              /\ initialized' = setDefaults_flag(ok, initialized)
              /\ UNCHANGED remoteDefault
  /\ UNCHANGED mounted

\* fetchTheme: fetchAndActivate settled; getValue(...).asString(), JSON.parse,
\* then cacheTheme(theme) calls AsyncStorage.setItem.
FetchAndActivateReturn(i) ==
  /\ pc[i] = "fetchAndActivate"
  /\ \E ok \in BOOLEAN :
       IF ~ok THEN fetchTheme_catch(i)
       ELSE \E getValueOk \in BOOLEAN :
         IF ~getValueOk THEN fetchTheme_catch(i)
         ELSE \E serverValue \in ServerValues :
           LET themeString == getValue(serverValue, remoteDefault)
               parsed == JSON_parse(themeString)
           IN  IF parsed.kind = "throw" THEN fetchTheme_catch(i)
               ELSE /\ pc' = [pc EXCEPT ![i] = "setItem"]
                    /\ loc' = [loc EXCEPT ![i] = parsed.value]
                    /\ last' = NoEvent
                    /\ UNCHANGED << store, theme, isLoading, error, lastOk, since, latest >>
  /\ UNCHANGED << initialized, remoteDefault, mounted >>

\* fetchTheme: cacheTheme(theme) settled; `return theme`.
SetItemReturn(i) ==
  /\ pc[i] = "setItem"
  /\ \E setOk \in BOOLEAN :
       LET c == cacheTheme(setOk, loc[i], store) IN
       IF c.completion.kind = "return"
         THEN refreshTheme_settle(i, Return(loc[i]), "success", setOk, c.item)
         ELSE /\ pc' = [pc EXCEPT ![i] = "fallbackGetItem"]
              /\ loc' = [loc EXCEPT ![i] = NoLocal]
              /\ last' = NoEvent
              /\ store' = c.item
              /\ UNCHANGED << theme, isLoading, error, lastOk, since, latest >>
  /\ UNCHANGED << initialized, remoteDefault, mounted >>

\* fetchTheme, catch block: getCachedTheme() settled; `return cachedTheme`.
FallbackGetItemReturn(i) ==
  /\ pc[i] = "fallbackGetItem"
  /\ \E getOk \in BOOLEAN :
       refreshTheme_settle(i, getCachedTheme(getOk, store), "fallback",
                           getOk, store)
  /\ UNCHANGED << initialized, remoteDefault, mounted >>

Next ==
  \/ Mount
  \/ \E i \in Calls : Refresh(i)
  \/ \E i \in Calls : SetConfigSettingsReturn(i)
  \/ \E i \in Calls : InitGetItemReturn(i)
  \/ \E i \in Calls : SetDefaultsReturn(i)
  \/ \E i \in Calls : FetchAndActivateReturn(i)
  \/ \E i \in Calls : SetItemReturn(i)
  \/ \E i \in Calls : FallbackGetItemReturn(i)

Spec == Init /\ [][Next]_vars

\* The call invocation i is suspended on settles, whatever its outcome.
Settles(i) ==
  \/ SetConfigSettingsReturn(i)
  \/ InitGetItemReturn(i)
  \/ SetDefaultsReturn(i)
  \/ FetchAndActivateReturn(i)
  \/ SetItemReturn(i)
  \/ FallbackGetItemReturn(i)

\* Spec with every awaited call eventually returning: a call that can settle
\* is not left pending for ever.
SpecFair ==
  Init /\ [][Next]_vars /\ \A i \in Calls : WF_vars(Settles(i))

\* The most awaits an invocation suspended on call p still has to get through,
\* p included, before its fetchTheme() settles: the sequence is
\* setConfigSettings, getItem, setDefaults, fetchAndActivate, setItem, and a
\* failure leads to the one getItem of the catch block.
AwaitsLeft(p) ==
  CASE p = "idle" -> 0
    [] p = "fallbackGetItem" -> 1
    [] p = "setItem" -> 1
    [] p = "fetchAndActivate" -> 2
    [] p = "setDefaults" -> 3
    [] p = "initGetItem" -> 4
    [] p = "setConfigSettings" -> 5
    [] OTHER -> 6

\* A RemoteSource call (setConfigSettings, setDefaults, fetchAndActivate) that
\* never settles: the invocation awaiting it has no timer or race beside the
\* await, so nothing resumes it.
RemoteCallStalls(i) ==
  /\ pc[i] \in {"setConfigSettings", "setDefaults", "fetchAndActivate"}
  /\ pc' = [pc EXCEPT ![i] = "stalled"]
  /\ last' = NoEvent
  /\ UNCHANGED << initialized, store, remoteDefault, theme, isLoading, error,
                  mounted, loc, lastOk, since, latest >>

\* The catch block of fetchTheme is not itself guarded: anything thrown while
\* it runs (its console calls around `await this.getCachedTheme()`) rejects
\* the promise fetchTheme() returned, and refreshTheme's catch runs.  No
\* collaborator call modelled in Next does this; it is the abnormal condition
\* refreshTheme's catch exists for.
FetchThemeCatchThrows(i) ==
  /\ pc[i] = "fallbackGetItem"
  /\ refreshTheme_settle(i, Throw, "fallback", TRUE, store)
  /\ UNCHANGED << initialized, remoteDefault, mounted >>

NextReject ==
  \/ Next
  \/ \E i \in Calls : FetchThemeCatchThrows(i)

SpecReject == Init /\ [][NextReject]_vars

NextStall ==
  \/ Next
  \/ \E i \in Calls : RemoteCallStalls(i)

\* Every call that does settle is eventually resumed by the event loop.
SpecStall ==
  Init /\ [][NextStall]_vars /\ \A i \in Calls : WF_vars(Settles(i))

----------------------------------------------------------------------------
\* Properties.  `last` describes the fetchTheme() that settled in the step
\* leading to the current state (status "none" when that step settled none),
\* so `store` and `theme` beside it are the values at the moment it settled.

\* The initialize() attempts in flight: invocations suspended inside it.
InitializeInFlight ==
  { i \in Calls : pc[i] \in { "setConfigSettings", "initGetItem", "setDefaults" } }

\* C1: fetchTheme() never rejects, whatever the outcomes of the RemoteSource
\* calls, of JSON parsing and of the store's get/set calls.
C1_FetchThemeNeverRejects == last.status # "rejected"

\* C1 witness: a fetchTheme() that fell back and whose store read failed too
\* has resolved.
C1_Witness ==
  last.status = "resolved" /\ last.path = "fallback" /\ ~last.ioOk

\* C2 (as claimed): every value fetchTheme() resolves to is a structurally
\* valid Theme.
C2_ResolvesToValidTheme ==
  last.status = "resolved" => IsTheme(last.value)

C4_FallbackServesDefault ==
  (last.path = "fallback" /\ (store = NoItem \/ JSON_parse(store).kind = "throw"))
    => last.value = DEFAULT_THEME

C6_WriteThrough ==
  (last.path = "success" /\ last.ioOk /\ IsTheme(last.value))
    => (last.status = "resolved" /\ CacheHolds(store) = last.value)

\* C6 witness: the write replaced another Theme the cache held before.
C6_Witness ==
  /\ last.path = "success" /\ last.ioOk /\ last.status = "resolved"
  /\ last.value = ExampleTheme
  /\ last.cacheBefore = OlderTheme
  /\ CacheHolds(store) = ExampleTheme

\* C7 (as claimed): only a fetchTheme() returning on the success path changes
\* the cache slot, and no step turns a cached Theme into absent.
C7_CacheFrame ==
  [][ /\ (store' # store => last'.path = "success")
      /\ (IsTheme(CacheHolds(store)) => CacheHolds(store') # Null) ]_vars

\* C8 (as claimed): the cache is always absent or holds a schema-valid Theme.
C8_CacheHoldsValidTheme ==
  CacheHolds(store) = Null \/ IsTheme(CacheHolds(store))

\* C9 (as claimed): the theme the controller exposes is always a schema-valid
\* Theme.
C9_ExposedThemeValid == IsTheme(theme)

\* C10 (as claimed): at most one initialize() attempt is in flight at a time,
\* so its setConfigSettings / setDefaults are not performed twice by
\* overlapping first calls.
C10_SingleInitializeInFlight == Cardinality(InitializeInFlight) <= 1


\* C11: once overlapping refreshTheme() invocations have all completed, the
\* controller shows what the one invoked last produced (its theme and error,
\* isLoading false), whatever the order in which they settled.
C11_LaterInvocationWins ==
  ((\A i \in Calls : pc[i] = "idle") /\ latest.done) =>
    /\ theme = latest.theme
    /\ error = latest.error
    /\ ~isLoading

\* C12: a refreshTheme() whose fetchTheme() met a recoverable failure (it took
\* the fallback, or its cache write failed) and resolved leaves the controller
\* Ready: error null, isLoading false, and a structurally valid theme; the
\* error is set by no completion other than a rejection.
C12_RecoverableFailureEndsReady ==
  /\ (last.status = "resolved" /\ (last.path = "fallback" \/ ~last.ioOk)) =>
       /\ error = ErrorNull
       /\ ~isLoading
       /\ IsTheme(theme)
  /\ (last.status # "none" /\ error # ErrorNull) => last.status = "rejected"

\* C13: no fetchTheme() hangs: every invocation in flight, one whose
\* RemoteSource call never returns included, still has a step that resumes it
\* (and so, under SpecStall's fairness, eventually resolves).
C13_NoInvocationHangs ==
  \A i \in Calls : pc[i] # "idle" => ENABLED Settles(i)

\* C14: `initialized` is never reset once true, and an initialize() called
\* while it is true returns at once: the invocation goes straight on to
\* fetchAndActivate, with no setConfigSettings, no cache read and no
\* setDefaults (the seeded default is untouched).
C14_InitializeIdempotent ==
  [][ /\ initialized => initialized'
      /\ \A i \in Calls :
           (initialized /\ pc[i] = "idle" /\ pc'[i] # "idle") =>
             /\ pc'[i] = "fetchAndActivate"
             /\ remoteDefault' = remoteDefault ]_vars

\* An invocation begun after a fetchTheme() had succeeded, hence with
\* `initialized` true, stands at fetchAndActivate.
C14_Witness ==
  /\ initialized
  /\ \E i \in since : pc[i] = "fetchAndActivate"

\* C15: a failure of setConfigSettings or setDefaults inside initialize() is
\* reported (fetchTheme's catch is entered) and leaves `initialized` as it
\* was; an invocation begun while the flag is false starts the sequence again
\* at setConfigSettings; the flag becomes true only in the step in which
\* setDefaults, reached after setConfigSettings succeeded, succeeds.
C15_FailedInitializeRetries ==
  [][ /\ \A i \in Calls :
           /\ (pc[i] \in {"setConfigSettings", "setDefaults"}
                 /\ pc'[i] = "fallbackGetItem") => initialized' = initialized
           /\ (~initialized /\ pc[i] = "idle" /\ pc'[i] # "idle") =>
                pc'[i] = "setConfigSettings"
      /\ (~initialized /\ initialized') =>
           \E i \in Calls : pc[i] = "setDefaults" /\ pc'[i] = "fetchAndActivate"
    ]_vars

\* A fetchTheme() has completed through the fallback on the cached Theme, no
\* initialize() has succeeded yet, and an invocation begun after that one
\* completed is at setConfigSettings again.
C15_Witness ==
  /\ ~initialized
  /\ theme = OlderTheme
  /\ isLoading
  /\ pc[1] = "setConfigSettings"
  /\ \A i \in Calls : i > 1 => pc[i] = "idle"

\* C16: the in-app default seeded for the theme key by initialize() is never
\* the null document: it is the cached Theme, or DEFAULT_THEME when the cache
\* is absent or unreadable.
C16_SeededDefaultIsDocument ==
  remoteDefault = Unset \/ remoteDefault.json # Null

\* C17: when the fetchTheme() promise of a refreshTheme() rejects, the step
\* that handles it leaves the controller with a non-null error, isLoading
\* false, and the theme it showed before (DEFAULT_THEME if none was set).
C17_RejectionKeepsTheme ==
  [][ last'.status = "rejected" =>
        /\ error' # ErrorNull
        /\ ~isLoading'
        /\ theme' = theme ]_vars

\* A fetchTheme() has just rejected while the controller showed a Theme
\* fetched before.
C17_Witness ==
  /\ last.status = "rejected"
  /\ theme = ExampleTheme
  /\ error = ErrorMessage
  /\ ~isLoading

\* C18: an invocation awaiting the cache write leaves it only by completing
\* on the success path: fetchTheme() resolves to the document it parsed, also
\* when setItem failed, and then the store keeps the item it held.
C18_CacheWriteFailureNonFatal ==
  [][ /\ \A i \in Calls :
           (pc[i] = "setItem" /\ last'.status = "none") => pc'[i] = "setItem"
      /\ last'.path = "success" =>
           /\ last'.status = "resolved"
           /\ \E i \in Calls : pc[i] = "setItem" /\ last'.value = loc[i]
           /\ ~last'.ioOk => store' = store ]_vars

\* fetchTheme() has just resolved to the fetched Theme although its setItem
\* failed, and the store still holds the Theme cached before.
C18_Witness ==
  /\ last.status = "resolved"
  /\ last.path = "success"
  /\ ~last.ioOk
  /\ last.value = ExampleTheme
  /\ store = JSON_stringify(OlderTheme)

\* C19: a cache read never fails its caller.  In initialize() the invocation
\* always goes on to setDefaults, and in the fallback fetchTheme() always
\* resolves; when the get failed, or the stored string is empty or does not
\* parse, the value read is null, as when nothing was ever stored.
C19_CacheReadNeverFails ==
  [][ /\ \A i \in Calls :
           (pc[i] = "initGetItem" /\ last'.status = "none"
              /\ pc'[i] # "initGetItem") =>
             /\ pc'[i] = "setDefaults"
             /\ loc'[i] \in {Null, CacheHolds(store)}
             /\ JSON_parse(store).kind = "throw" => loc'[i] = Null
      /\ last'.path = "fallback" =>
           /\ last'.status = "resolved"
           /\ last'.value \in {Null, CacheHolds(store)}
           /\ (~last'.ioOk \/ JSON_parse(store).kind = "throw") =>
                last'.value = Null ]_vars

\* The fallback has just read an item that does not parse and fetchTheme()
\* resolved to null, while an initialize() that read the same item is about to
\* seed null.
C19_Witness ==
  /\ last.status = "resolved"
  /\ last.path = "fallback"
  /\ last.ioOk
  /\ store = MalformedString
  /\ last.value = Null
  /\ \E i \in Calls : pc[i] = "setDefaults" /\ loc[i] = Null

C21_LoadingWhileRefreshPending ==
  (\E i \in Calls : pc[i] # "idle") => isLoading

\* C22: every refreshTheme() completes once its calls return, and completing
\* sets isLoading false.  An invocation in flight always has a call whose
\* return resumes it; a completion leaves isLoading false; a return that
\* completes nothing moves its invocation on, to a call with fewer awaits to
\* go.  Under SpecFair's fairness every invocation therefore completes.
C22_EveryRefreshCompletes ==
  /\ [](\A i \in Calls : pc[i] # "idle" => ENABLED Settles(i))
  /\ [][ \A i \in Calls :
           /\ last'.status # "none" => ~isLoading'
           /\ (pc[i] # "idle" /\ last'.status = "none" /\ pc'[i] # pc[i]) =>
                AwaitsLeft(pc'[i]) < AwaitsLeft(pc[i])
           /\ (pc[i] # "idle" /\ last'.status = "none" /\ pc'[i] = pc[i]) =>
                ~Settles(i) ]_vars

\* A refreshTheme() that went through the whole sequence has just completed,
\* none is pending and isLoading is false.
C22_Witness ==
  /\ last.status = "resolved"
  /\ last.path = "success"
  /\ latest.done
  /\ \A i \in Calls : pc[i] = "idle"
  /\ ~isLoading

====
